---- MODULE Spec2Model ----
\* A model of plotnine's stat_function.compute_group
\* (src/plotnine/stats/stat_function.py): one call of compute_group, stepped
\* statement by statement, over every combination of parameters and scale
\* context drawn from small sets.
EXTENDS Integers, Sequences, FiniteSets, TLC

\* ---------------------------------------------------------------- bounds
MaxN == 4       \* n (the number of samples) ranges over 1..MaxN
MaxCoord == 3   \* domain coordinates range over 0..MaxCoord
MaxArg == 2     \* numbers carried by args range over 2..MaxArg

\* ------------------------------------------------------ exact arithmetic
\* Sample values are rationals <<num, den>> in lowest terms with den > 0.
Abs(a) == IF a < 0 THEN -a ELSE a

RECURSIVE GCD(_, _)
GCD(a, b) == IF b = 0 THEN a ELSE GCD(b, a % b)

Rat(num, den) ==
    LET s == IF den < 0 THEN -1 ELSE 1
        g == GCD(Abs(num), Abs(den))
    IN  <<(s * num) \div g, (s * den) \div g>>

RInt(k) == <<k, 1>>
RAdd(a, b) == Rat(a[1] * b[2] + b[1] * a[2], a[2] * b[2])
RSub(a, b) == Rat(a[1] * b[2] - b[1] * a[2], a[2] * b[2])
RMul(a, b) == Rat(a[1] * b[1], a[2] * b[2])
RNeg(a) == <<-a[1], a[2]>>
RLess(a, b) == a[1] * b[2] < b[1] * a[2]

RECURSIVE RPow(_, _)
RPow(a, k) == IF k = 0 THEN RInt(1) ELSE RMul(a, RPow(a, k - 1))

\* ------------------------------------------------------- Python objects
\* A parameter value: its type tag, its items (numbers) and, for a dict,
\* the keys of the items.
Obj(tag, keys, vals) == [tag |-> tag, keys |-> keys, vals |-> vals]
None == Obj("NoneType", <<>>, <<>>)
IntObj(k) == Obj("int", <<>>, <<k>>)
TupleObj(s) == Obj("tuple", <<>>, s)
ListObj(s) == Obj("list", <<>>, s)
DictObj(k, v) == Obj("dict", k, v)

\* Python truth value of a parameter value, as the `or` of line 41 tests it.
Truthy(o) ==
    CASE o.tag = "NoneType" -> FALSE
      [] o.tag = "int" -> o.vals[1] # 0
      [] OTHER -> Len(o.vals) > 0

\* Exceptions: the type and the message, the message as the pieces that
\* str.format joins.
NoExc == [type |-> "None", msg |-> <<>>]
Exc(type) == [type |-> type, msg |-> <<>>]

\* str.format's rendering of xlim.
Format(o) == IF o.tag = "NoneType" THEN "None" ELSE ToString(o.vals)

\* ------------------------------------------------------------ the inputs
\* params['fun']: two values that are not callable, plain Python functions,
\* numpy ufuncs and a numpy.vectorize instance.
\*   sq     lambda x: x**2              pow    def f(x, p): return x**p
\*   recip  lambda x: 1/float(x)        attr   lambda x: x.missing
\*   square numpy.square                power  numpy.power
Fun(kind, name) == [kind |-> kind, name |-> name]
Funs ==
    {Fun("NoneType", "None"), Fun("int", "3")}
    \cup {Fun("function", nm) : nm \in {"sq", "pow", "recip", "attr"}}
    \cup {Fun("ufunc", "square"), Fun("ufunc", "power")}
    \cup {Fun("vectorize", "recip")}

ArgVals == 2..MaxArg
\* params['args']
Args ==
    {None, TupleObj(<<>>)}
    \cup {IntObj(k) : k \in ArgVals}
    \cup {TupleObj(<<k>>) : k \in ArgVals}
    \cup {ListObj(<<k>>) : k \in ArgVals}
    \cup {DictObj(<<"p">>, <<k>>) : k \in ArgVals}

\* params['xlim']: None or a pair (lo, hi).
XLims == {None} \cup {TupleObj(<<lo, hi>>) : lo \in 0..1, hi \in 1..MaxCoord}

\* The scale context `scales`.
\*   x        "absent": no x aesthetic is mapped, scales.x has no dimension;
\*            "discrete": a scale with a dimension and no trans;
\*            "continuous": a scale with a dimension and a trans
\*   extent   what scales.x.dimension((0, 0)) returns
\*   trans    the transform: identity, reverse (inverse -x), sqrt (inverse x**2)
\*   inverse  what scales.x.trans.inverse does: "ok" returns the values,
\*            "absent" the trans has no inverse, else the exception it raises
Scale(xk, extent, trans, inverse) ==
    [x |-> xk, extent |-> extent, trans |-> trans, inverse |-> inverse]
Extents == {<<0, MaxCoord>>, <<1, 2>>}
Scales ==
    {Scale("absent", <<0, 0>>, "none", "absent")}
    \cup {Scale("discrete", e, "none", "absent") : e \in Extents}
    \cup {Scale("continuous", e, t, "ok") :
            e \in Extents, t \in {"identity", "reverse", "sqrt"}}
    \cup {Scale("continuous", e, "reverse", o) :
            e \in Extents, o \in {"absent", "AttributeError", "ValueError"}}

\* ------------------------------------------------- compute_group's parts
\* Line 44: the message of the missing-x error.
MissingXError(xl) ==
    [type |-> "PlotnineError",
     msg |-> <<"Missing 'x' aesthetic and 'xlim' is ", Format(xl)>>]

\* Lines 47-49: the message of the not-callable error.
NotCallableError ==
    [type |-> "PlotnineError",
     msg |-> <<"stat_function requires parameter 'fun' to be ",
               "a function or any other callable object">>]

\* Lines 40-44: range_x = xlim or scales.x.dimension((0, 0)), an
\* AttributeError turned into the missing-x error. `queried` records whether
\* scales.x.dimension was evaluated at all.
ResolveRangeEager(xl, sc) ==
    IF sc.x = "absent"
    THEN [exc |-> MissingXError(xl), range |-> <<>>, queried |-> TRUE]
    ELSE [exc |-> NoExc,
          range |-> IF Truthy(xl) THEN xl.vals ELSE sc.extent,
          queried |-> TRUE]

ResolveRangeUncaught(xl, sc) ==
    IF Truthy(xl)
    THEN [exc |-> NoExc, range |-> xl.vals, queried |-> FALSE]
    ELSE IF sc.x = "absent"
         THEN [exc |-> Exc("AttributeError"), range |-> <<>>, queried |-> TRUE]
         ELSE [exc |-> NoExc, range |-> sc.extent, queried |-> TRUE]

ResolveRange(xl, sc) ==
    IF Truthy(xl)
    THEN [exc |-> NoExc, range |-> xl.vals, queried |-> FALSE]
    ELSE IF sc.x = "absent"
         THEN [exc |-> MissingXError(xl), range |-> <<>>, queried |-> TRUE]
         ELSE [exc |-> NoExc, range |-> sc.extent, queried |-> TRUE]

\* Line 46: hasattr(fun, '__call__').
IsCallableNotNone(f) == f.kind # "NoneType"

IsCallable(f) == f.kind \in {"function", "ufunc", "vectorize"}

\* Lines 52-63: which wrapper is defined, from the type of args.
BindTupleOnly(a) ==
    CASE a.tag = "tuple" -> "star"
      [] a.tag = "dict" -> "kwargs"
      [] a.tag # "NoneType" -> "single"
      [] OTHER -> "bare"

Bind(a) ==
    CASE a.tag \in {"list", "tuple"} -> "star"
      [] a.tag = "dict" -> "kwargs"
      [] a.tag # "NoneType" -> "single"
      [] OTHER -> "bare"

\* An invocation of old_fun: the first argument (one sample, or the whole
\* array when `array`), the positional arguments after it, the keywords.
Invocation(xs, array, pos, kw) ==
    [xs |-> xs, array |-> array, pos |-> pos, kw |-> kw]
NoKw == DictObj(<<>>, <<>>)
Unpack(a) == [j \in 1..Len(a.vals) |-> IntObj(a.vals[j])]

\* Lines 53-63: the invocation of old_fun that the wrapper fun(x) makes.
WrappedNoArgs(b, a, xs, array) == Invocation(xs, array, <<>>, NoKw)

Wrapped(b, a, xs, array) ==
    CASE b = "star" -> Invocation(xs, array, Unpack(a), NoKw)
      [] b = "kwargs" -> Invocation(xs, array, <<>>, a)
      [] b = "single" -> Invocation(xs, array, <<a>>, NoKw)
      [] OTHER -> Invocation(xs, array, <<>>, NoKw)

\* Line 65: np.linspace(start, stop, num), both endpoints included.
linspaceNoEndpoint(start, stop, num) ==
    [j \in 1..num |->
        RAdd(RInt(start), RMul(RInt(j - 1), Rat(stop - start, num)))]

linspace(start, stop, num) ==
    [j \in 1..num |->
        IF num > 1 /\ j = num THEN RInt(stop)
        ELSE IF num = 1 THEN RInt(start)
        ELSE RAdd(RInt(start), RMul(RInt(j - 1), Rat(stop - start, num - 1)))]

\* The inverse of a transform, on one value.
InverseOf(t, v) ==
    CASE t = "reverse" -> RNeg(v)
      [] t = "sqrt" -> RMul(v, v)
      [] OTHER -> v

\* Lines 68-69: with suppress(AttributeError): x = scales.x.trans.inverse(x).
\* Every AttributeError raised inside the block is suppressed and leaves x
\* as it was: scales.x missing, no trans, no inverse, or the inverse itself
\* raising one.
ApplyInverse(sc, xs) ==
    CASE sc.x # "continuous" -> [exc |-> NoExc, x |-> xs]
      [] sc.x = "continuous" /\ sc.inverse = "absent" -> [exc |-> NoExc, x |-> xs]
      [] sc.x = "continuous" /\ sc.inverse = "ok" ->
            [exc |-> NoExc, x |-> [j \in 1..Len(xs) |-> InverseOf(sc.trans, xs[j])]]
      [] sc.x = "continuous" /\ sc.inverse = "AttributeError" ->
            [exc |-> NoExc, x |-> xs]
      [] OTHER -> [exc |-> Exc(sc.inverse), x |-> xs]

\* Line 72: isinstance(old_fun, (np.ufunc, np.vectorize)).
IsVectorizedUfuncOnly(f) == f.kind = "ufunc"

IsVectorized(f) == f.kind \in {"ufunc", "vectorize"}

\* ------------------------------------------------- the supplied callable
\* What old_fun does with the arguments after the first: the exponent it
\* uses, 0 when it takes none, or -1 when the call does not match its
\* signature (a TypeError).
Exponent(f, pos, kw) ==
    LET bare == Len(pos) = 0 /\ Len(kw.keys) = 0
    IN  CASE f.name \in {"sq", "recip", "attr", "square"} ->
                IF bare THEN 0 ELSE -1
          [] f.name = "pow" ->
                IF Len(pos) = 1 /\ Len(kw.keys) = 0 /\ pos[1].tag = "int"
                THEN pos[1].vals[1]
                ELSE IF Len(pos) = 0 /\ kw.keys = <<"p">> THEN kw.vals[1]
                ELSE -1
          [] f.name = "power" ->
                IF Len(pos) = 1 /\ Len(kw.keys) = 0
                   /\ pos[1].tag \in {"int", "list", "tuple"}
                   /\ Len(pos[1].vals) = 1
                THEN pos[1].vals[1]
                ELSE -1
          [] OTHER -> -1

\* old_fun on one value: the exception it raises, or its value.
OnValue(f, v, e) ==
    CASE f.name \in {"sq", "square"} -> [exc |-> NoExc, val |-> RMul(v, v)]
      [] f.name \in {"pow", "power"} -> [exc |-> NoExc, val |-> RPow(v, e)]
      [] f.name = "recip" ->
            IF v[1] = 0 THEN [exc |-> Exc("ZeroDivisionError"), val |-> v]
            ELSE [exc |-> NoExc, val |-> Rat(v[2], v[1])]
      [] OTHER -> [exc |-> Exc("AttributeError"), val |-> v]

\* One invocation of old_fun: the exception it raises, or the values it
\* returns (one per element of its first argument).
Invoke(f, inv) ==
    LET e == Exponent(f, inv.pos, inv.kw)
        r == [j \in 1..Len(inv.xs) |-> OnValue(f, inv.xs[j], e)]
        bad == {j \in 1..Len(inv.xs) : r[j].exc # NoExc}
    IN  IF e = -1 THEN [exc |-> Exc("TypeError"), val |-> <<>>]
        ELSE IF bad # {}
             THEN [exc |-> r[CHOOSE j \in bad : \A k \in bad : j <= k].exc,
                   val |-> <<>>]
             ELSE [exc |-> NoExc, val |-> [j \in 1..Len(inv.xs) |-> r[j].val]]

\* Lines 73 and 75: the statement y = fun(x) has no handler around it, so it
\* raises what the callable raises.
CallFunWrapping(f, inv) ==
    LET r == Invoke(f, inv)
    IN  IF r.exc = NoExc THEN r
        ELSE [exc |-> [type |-> "PlotnineError", msg |-> <<r.exc.type>>],
              val |-> <<>>]

CallFun(f, inv) == Invoke(f, inv)

\* Line 77: pd.DataFrame({'x': x, 'y': y}).
NoTable == [columns |-> <<>>, x |-> <<>>, y |-> <<>>]
DataFrame(xs, ys) == [columns |-> <<"x", "y">>, x |-> xs, y |-> ys]

\* ------------------------------------------------------------- the state
VARIABLES
    fun, n, args, xlim, scales,  \* the parameters and the scale context
    pc,        \* the statement compute_group is at
    range_x,   \* line 41
    queried,   \* whether scales.x.dimension was evaluated
    binding,   \* which of the four wrappers of lines 52-63 is bound to fun
    x, y,      \* lines 65-75
    calls,     \* the invocations of old_fun made so far, in order
    exc,       \* the exception compute_group raised, NoExc while none
    new_data   \* the returned table, NoTable while none

vars == <<fun, n, args, xlim, scales, pc, range_x, queried, binding, x, y,
          calls, exc, new_data>>
params == <<fun, n, args, xlim, scales>>

Init ==
    /\ fun \in Funs
    /\ n \in 1..MaxN
    /\ args \in Args
    /\ xlim \in XLims
    /\ scales \in Scales
    /\ pc = "resolve"
    /\ range_x = <<>>
    /\ queried = FALSE
    /\ binding = "unbound"
    /\ x = <<>>
    /\ y = <<>>
    /\ calls = <<>>
    /\ exc = NoExc
    /\ new_data = NoTable

Raise(e) == pc' = "raised" /\ exc' = e

\* Lines 40-44.
ResolveDomain ==
    /\ pc = "resolve"
    /\ LET r == ResolveRange(xlim, scales)
       IN  /\ queried' = r.queried
           /\ IF r.exc # NoExc
              THEN Raise(r.exc) /\ UNCHANGED range_x
              ELSE pc' = "validate" /\ range_x' = r.range /\ UNCHANGED exc
    /\ UNCHANGED <<params, binding, x, y, calls, new_data>>

\* Lines 46-49.
ValidateFun ==
    /\ pc = "validate"
    /\ IF IsCallable(fun)
       THEN pc' = "bind" /\ UNCHANGED exc
       ELSE Raise(NotCallableError)
    /\ UNCHANGED <<params, range_x, queried, binding, x, y, calls, new_data>>

\* Lines 51-63.
BindArgs ==
    /\ pc = "bind"
    /\ binding' = Bind(args)
    /\ pc' = "linspace"
    /\ UNCHANGED <<params, range_x, queried, x, y, calls, exc, new_data>>

\* Line 65.
Linspace ==
    /\ pc = "linspace"
    /\ x' = linspace(range_x[1], range_x[2], n)
    /\ pc' = "inverse"
    /\ UNCHANGED <<params, range_x, queried, binding, y, calls, exc, new_data>>

\* Lines 67-69.
InverseTransform ==
    /\ pc = "inverse"
    /\ LET r == ApplyInverse(scales, x)
       IN  IF r.exc # NoExc
           THEN Raise(r.exc) /\ UNCHANGED x
           ELSE pc' = "eval" /\ x' = r.x /\ UNCHANGED exc
    /\ UNCHANGED <<params, range_x, queried, binding, y, calls, new_data>>

\* Lines 72-73: one invocation on the whole array.
EvalVectorized ==
    /\ pc = "eval"
    /\ IsVectorized(fun)
    /\ LET inv == Wrapped(binding, args, x, TRUE)
           r == CallFun(fun, inv)
       IN  /\ calls' = Append(calls, inv)
           /\ IF r.exc # NoExc
              THEN Raise(r.exc) /\ UNCHANGED y
              ELSE pc' = "assemble" /\ y' = r.val /\ UNCHANGED exc
    /\ UNCHANGED <<params, range_x, queried, binding, x, new_data>>

\* Lines 74-75: one turn of the list comprehension, on the next sample.
EvalSample ==
    /\ pc = "eval"
    /\ ~IsVectorized(fun)
    /\ Len(y) < Len(x)
    /\ LET inv == Wrapped(binding, args, <<x[Len(y) + 1]>>, FALSE)
           r == CallFun(fun, inv)
       IN  /\ calls' = Append(calls, inv)
           /\ IF r.exc # NoExc
              THEN Raise(r.exc) /\ UNCHANGED y
              ELSE y' = Append(y, r.val[1]) /\ UNCHANGED <<pc, exc>>
    /\ UNCHANGED <<params, range_x, queried, binding, x, new_data>>

\* Line 75: the list comprehension is exhausted.
EvalDone ==
    /\ pc = "eval"
    /\ ~IsVectorized(fun)
    /\ Len(y) = Len(x)
    /\ pc' = "assemble"
    /\ UNCHANGED <<params, range_x, queried, binding, x, y, calls, exc, new_data>>

\* Lines 77-78.
Assemble ==
    /\ pc = "assemble"
    /\ new_data' = DataFrame(x, y)
    /\ pc' = "done"
    /\ UNCHANGED <<params, range_x, queried, binding, x, y, calls, exc>>

Next ==
    \/ ResolveDomain
    \/ ValidateFun
    \/ BindArgs
    \/ Linspace
    \/ InverseTransform
    \/ EvalVectorized
    \/ EvalSample
    \/ EvalDone
    \/ Assemble

Spec == Init /\ [][Next]_vars

\* ------------------------------------------------------------ properties
Returned == pc = "done"
Raised == pc = "raised"
\* The samples line 65 produces from the resolved domain.
RawSamples == linspace(range_x[1], range_x[2], n)
\* The invocation of old_fun that the claimed binding makes for a first
\* argument xs, read off the shape of args.
ClaimedInvocation(xs, array) ==
    [xs |-> xs, array |-> array,
     pos |-> IF args.tag \in {"list", "tuple"}
             THEN [j \in 1..Len(args.vals) |-> IntObj(args.vals[j])]
             ELSE IF args.tag \in {"NoneType", "dict"} THEN <<>>
             ELSE <<args>>,
     kw |-> IF args.tag = "dict" THEN args ELSE DictObj(<<>>, <<>>)]

\* C1: with xlim None and a context without an x dimension, compute_group
\* raises PlotnineError "Missing 'x' aesthetic and 'xlim' is None" at its
\* first statement, whatever fun, n and args are; the callable is never
\* invoked and no table is returned.
C1_MissingXFails ==
    (xlim = None /\ scales.x = "absent" /\ pc # "resolve") =>
        /\ Raised
        /\ exc.type = "PlotnineError"
        /\ exc.msg = <<"Missing 'x' aesthetic and 'xlim' is ", "None">>
        /\ calls = <<>>
        /\ new_data = NoTable

C1_Witness ==
    /\ Raised /\ xlim = None /\ scales.x = "absent"
    /\ fun.kind = "function" /\ args # None /\ n > 1

\* C2 as stated: a fun that is not callable makes compute_group raise the
\* PlotnineError about parameter 'fun', whatever n, args, xlim and the scale
\* context are.
C2_NotCallableAlways ==
    (fun.kind \in {"NoneType", "int"} /\ pc # "resolve" /\ pc # "validate") =>
        /\ Raised
        /\ exc.type = "PlotnineError"
        /\ exc.msg = <<"stat_function requires parameter 'fun' to be ",
                       "a function or any other callable object">>
        /\ new_data = NoTable

\* C2 amended: a fun that is not callable makes compute_group raise the
\* PlotnineError about parameter 'fun' whenever the domain resolves (xlim is
\* given or the context has an x dimension), whatever n and args are; when
\* neither is there, the missing-x error of the first statement is raised
\* instead. No table is returned in either case.
C2_NotCallableAfterDomain ==
    (fun.kind \in {"NoneType", "int"} /\ pc # "resolve" /\ pc # "validate") =>
        /\ Raised
        /\ exc.type = "PlotnineError"
        /\ new_data = NoTable
        /\ calls = <<>>
        /\ IF xlim # None \/ scales.x # "absent"
           THEN exc.msg = <<"stat_function requires parameter 'fun' to be ",
                            "a function or any other callable object">>
           ELSE exc.msg = <<"Missing 'x' aesthetic and 'xlim' is ", "None">>

C2_Witness ==
    /\ Raised /\ fun.kind = "int" /\ xlim # None /\ scales.x = "absent"
    /\ exc.msg[1] = "stat_function requires parameter 'fun' to be "

\* C3: once the domain is resolved, a given xlim is the sampling range and
\* scales.x.dimension was not evaluated, so a context without an x dimension
\* raises no missing-x error and a call with a callable that does not raise
\* returns; with xlim None the range is the extent scales.x.dimension
\* returned.
C3_DomainResolution ==
    pc # "resolve" =>
        /\ xlim # None =>
              /\ range_x = xlim.vals
              /\ ~queried
              /\ exc.type = "PlotnineError" => fun.kind \in {"NoneType", "int"}
              /\ Raised => (fun.kind \in {"NoneType", "int"} \/ calls # <<>>
                            \/ scales.x = "continuous")
        /\ xlim = None =>
              /\ queried
              /\ scales.x # "absent" => range_x = scales.extent

C3_Witness ==
    Returned /\ xlim # None /\ scales.x = "absent" /\ range_x = <<0, MaxCoord>>

\* C4: every invocation of the callable passes, after its first argument,
\* the items of args as positionals when args is a list or a tuple, args as
\* keywords when it is a dict, args itself as one positional when it is any
\* other value but None, and nothing when it is None; the case is fixed when
\* the wrapper is bound. With fun(x, p) = x**p, args = (2,), the domain
\* (0, 3), n = 4 and no transform, y is [0, 1, 4, 9] at x = [0, 1, 2, 3].
C4_ArgumentBinding ==
    /\ \A i \in 1..Len(calls) :
          /\ calls[i].pos = ClaimedInvocation(calls[i].xs, calls[i].array).pos
          /\ calls[i].kw = ClaimedInvocation(calls[i].xs, calls[i].array).kw
    /\ binding # "unbound" =>
          binding = CASE args.tag \in {"list", "tuple"} -> "star"
                      [] args.tag = "dict" -> "kwargs"
                      [] args.tag = "NoneType" -> "bare"
                      [] OTHER -> "single"
    /\ (/\ fun = Fun("function", "pow") /\ args.tag \in {"list", "tuple"}
        /\ args.vals = <<2>> /\ xlim = TupleObj(<<0, 3>>) /\ n = 4
        /\ scales.x # "continuous") =>
          /\ pc # "raised"
          /\ Returned =>
                /\ new_data.x = <<RInt(0), RInt(1), RInt(2), RInt(3)>>
                /\ new_data.y = <<RInt(0), RInt(1), RInt(4), RInt(9)>>

C4_Witness ==
    /\ Returned /\ fun = Fun("function", "pow") /\ args = ListObj(<<2>>)
    /\ xlim = TupleObj(<<0, 3>>) /\ n = 4 /\ scales.x = "discrete"
    /\ new_data.y = <<RInt(0), RInt(1), RInt(4), RInt(9)>>

\* Whether a sequence of values is a strictly increasing arithmetic sequence.
StrictlyIncreasing(s) == \A j \in 1..(Len(s) - 1) : RLess(s[j], s[j + 1])
Arithmetic(s) ==
    \A j \in 1..(Len(s) - 2) : RSub(s[j + 1], s[j]) = RSub(s[j + 2], s[j + 1])
FromTo(s, lo, hi) ==
    /\ Len(s) = n
    /\ s[1] = RInt(lo)
    /\ s[Len(s)] = RInt(hi)
    /\ StrictlyIncreasing(s)
    /\ Arithmetic(s)

\* C5 as stated: for every resolved domain lo < hi and every n >= 2 the x
\* column of the returned table is a strictly increasing arithmetic sequence
\* of length n from lo to hi.
C5_XColumnAlwaysArithmetic ==
    (Returned /\ range_x[1] < range_x[2] /\ n >= 2) =>
        FromTo(new_data.x, range_x[1], range_x[2])

\* C5 amended: for every resolved domain lo < hi and every n >= 2 the samples
\* line 65 produces are a strictly increasing arithmetic sequence of length n
\* from lo to hi, and so is the x column of the returned table when the scale
\* context exposes no x transform inverse or the inverse is the identity.
C5_SamplesArithmetic ==
    (range_x # <<>> /\ range_x[1] < range_x[2] /\ n >= 2) =>
        /\ pc = "inverse" => FromTo(x, range_x[1], range_x[2])
        /\ (/\ Returned
            /\ \/ scales.x # "continuous"
               \/ scales.inverse = "absent"
               \/ scales.trans = "identity") =>
              FromTo(new_data.x, range_x[1], range_x[2])

C5_Witness ==
    /\ Returned /\ n = MaxN /\ range_x = <<1, 2>> /\ scales.x = "discrete"
    /\ new_data.x[2] = Rat(MaxN, MaxN - 1)

\* C6: a returned table has exactly the columns x and y and n rows, and in
\* every row y is what the callable, with args bound, returns for the x
\* stored in that row.
C6_TableShape ==
    Returned =>
        /\ new_data.columns = <<"x", "y">>
        /\ Len(new_data.x) = n
        /\ Len(new_data.y) = n
        /\ new_data.x = x
        /\ \A i \in 1..n :
              LET r == Invoke(fun, ClaimedInvocation(<<new_data.x[i]>>, FALSE))
              IN  r.exc = NoExc /\ r.val = <<new_data.y[i]>>

C6_Witness ==
    /\ Returned /\ n = MaxN /\ fun = Fun("ufunc", "power") /\ args.tag = "int"
    /\ scales.x = "continuous" /\ scales.trans = "sqrt" /\ scales.inverse = "ok"
    /\ new_data.x[n] # RInt(range_x[2])

\* The x column and the callable's inputs that C7 states, from the raw
\* samples.
ClaimedX ==
    IF scales.x = "continuous" /\ scales.inverse # "absent"
    THEN [j \in 1..n |-> InverseOf(scales.trans, RawSamples[j])]
    ELSE RawSamples

\* C7 as stated: when the context exposes an x transform with an inverse, the
\* callable's inputs and the x column of the returned table are the inverse
\* of the samples; when it exposes no x scale, no transform or no inverse,
\* they are the raw samples and the step raises nothing.
C7_InverseApplied ==
    /\ (pc \in {"eval", "assemble", "done"}) => x = ClaimedX
    /\ Returned => new_data.x = ClaimedX
    /\ ((scales.x # "continuous" \/ scales.inverse = "absent")
        /\ Raised /\ x # <<>>) => calls # <<>>

\* C8: a ufunc or numpy.vectorize instance is invoked once, on the whole
\* sample array; any other callable is invoked once per sample, in ascending
\* sample order, n times when the evaluation completes, and y collects the
\* results in that order.
C8_EvaluationOrder ==
    IF fun.kind \in {"ufunc", "vectorize"}
    THEN /\ Len(calls) <= 1
         /\ \A i \in 1..Len(calls) : calls[i].array /\ calls[i].xs = x
         /\ pc \in {"assemble", "done"} =>
               /\ Len(calls) = 1
               /\ Len(calls[1].xs) = n
               /\ y = Invoke(fun, calls[1]).val
    ELSE /\ Len(calls) <= n
         /\ \A i \in 1..Len(calls) : ~calls[i].array /\ calls[i].xs = <<x[i]>>
         /\ \A i \in 1..Len(y) : <<y[i]>> = Invoke(fun, calls[i]).val
         /\ pc = "eval" => Len(calls) = Len(y)
         /\ pc \in {"assemble", "done"} => Len(calls) = n /\ Len(y) = n

C8_Witness ==
    /\ Returned /\ fun.kind = "function" /\ n = MaxN /\ Len(calls) = MaxN
    /\ calls[1].xs # calls[MaxN].xs

\* C9 as stated: when the context exposes a transform inverse and applying it
\* fails, the failure reaches the caller whatever its kind: the callable is
\* never evaluated and no table is returned.
C9_InverseFailurePropagates ==
    (scales.x = "continuous"
     /\ scales.inverse \in {"AttributeError", "ValueError"}) =>
        /\ pc \notin {"eval", "assemble", "done"}
        /\ calls = <<>>
        /\ new_data = NoTable
        /\ (Raised /\ x # <<>>) => exc.type = scales.inverse

\* C10: an exception the callable raises is the exception compute_group
\* raises, unchanged, on both evaluation paths and whatever its type; the
\* evaluation stops there and no table is returned.
C10_CallableErrorPropagates ==
    /\ \A i \in 1..Len(calls) :
          Invoke(fun, calls[i]).exc # NoExc =>
              /\ i = Len(calls)
              /\ Raised
              /\ exc = Invoke(fun, calls[i]).exc
              /\ new_data = NoTable
    /\ (Raised /\ calls # <<>>) =>
          /\ exc = Invoke(fun, calls[Len(calls)]).exc
          /\ exc.type \in {"AttributeError", "ZeroDivisionError", "TypeError"}

C10_Witness ==
    /\ Raised /\ exc.type = "AttributeError" /\ Len(calls) = 1
    /\ fun = Fun("function", "attr") /\ scales.x = "absent"

====
